---- MODULE Spec2Model ----
(***************************************************************************)
(* Model of the gRPC CDS cluster cache of contour (package contour):       *)
(* clusterCache.Register, clusterCache.Update, clusterCache.notify and     *)
(* clusterCache.Values, called concurrently by goroutines and serialised   *)
(* by clusterCache.mu.  Channels are Go buffered channels: a send          *)
(* `ch <- x` blocks while the buffer is full.                              *)
(*                                                                         *)
(* And of clusterVisitor: Visit, visit and edscluster walking a graph of   *)
(* vertices and building the map of *v2.Cluster, with edsconfig,           *)
(* edslbstrategy, edshealthcheck and uint32OrNil.                          *)
(***************************************************************************)
EXTENDS Integers, Sequences, FiniteSets, TLC

(* ---------------------------- bounds ----------------------------------- *)
\* number of Update calls made in a behaviour
MaxVersion == 2
\* number of Register calls made in a behaviour
MaxRegs == 2
\* capacity of every notification channel (the contract asks for >= 1)
ChanCap == 1

(* ---------------------------- universe --------------------------------- *)
Procs == {"p1", "p2"}
\* the goroutine that rebuilds the cache calls Update, a goroutine serving a
\* stream calls Values, and both may call Register; the mutex serialises the
\* operations, so which goroutine runs an operation changes nothing else
Updaters == {"p1"}
Readers == {"p2"}
Chans == {"c1", "c2"}
Names == {"a", "b"}
Revs == {1}
NoProc == "none"
NoChan == "nochan"

\* a *v2.Cluster, reduced to its Name and a revision telling apart two
\* objects of the same name
Clusters == [Name : Names, rev : Revs]

\* maps name -> cluster, keyed by the cluster's Name
Maps == UNION {{m \in [K -> Clusters] : \A k \in K : m[k].Name = k} : K \in SUBSET Names}

\* the maps passed to Update: the one with cluster "a" only and the one with
\* both clusters (a new cache holds the empty map)
Snapshots == {m \in Maps : "a" \in DOMAIN m}

EmptyMap == [k \in {} |-> [Name |-> "a", rev |-> 1]]

\* a filter func(string) bool is the set of names it accepts
Filters == SUBSET Names
AlwaysTrue == Names

(* ---------------------------- the visitor's universe -------------------- *)
\* depth of the call stack of a pass (the recursion of visit)
MaxDepth == 5

\* calls of clusterVisitor.Visit, and the clusterVisitor values they are made on
Passes == {"k1", "k2"}
Visitors == {"v1", "v2"}

\* the dag.Visitable and the vertices below it
Root == "dag"
Verts == {"x", "y", "z"}
Nodes == {Root} \cup Verts

\* a vertex's payload; for a *dag.Service: Namespace(), Name(), ServicePort
\* and the fields edscluster reads; a nil pointer is "nil"
SvcA ==
    [kind |-> "Service", Namespace |-> "d", Name |-> "web", PortName |-> "http", Port |-> 80,
     LoadBalancerStrategy |-> "", HealthCheck |-> "nil",
     MaxConnections |-> 0, MaxPendingRequests |-> 0, MaxRequests |-> 0, MaxRetries |-> 0,
     Protocol |-> ""]

\* the same (namespace, name, port) as SvcA with another configuration
SvcB ==
    [SvcA EXCEPT !.LoadBalancerStrategy = "Random", !.HealthCheck = "hc", !.MaxConnections = 5,
                 !.Protocol = "h2"]

\* another service, on a port without a name
SvcC == [SvcA EXCEPT !.Name = "api", !.PortName = "", !.Port = 81, !.Protocol = "h2c"]

\* a vertex that is not a *dag.Service (a virtual host, a route, a secret)
Other == [SvcA EXCEPT !.kind = "Other"]

\* the values a limit annotation can parse to
LimitVals == {-1, 0, 5}

\* services over a range of namespaces, names and ports
NamedSvcs ==
    {[SvcA EXCEPT !.Namespace = ns, !.Name = nm, !.PortName = pn, !.Port = po] :
        ns \in {"d", "e"}, nm \in {"web", "api"}, pn \in {"", "http", "grpc"}, po \in {80, 81}}

\* services over a range of limits
LimitedSvcs ==
    {[SvcA EXCEPT !.MaxConnections = a, !.MaxPendingRequests = b, !.MaxRequests = c, !.MaxRetries = d] :
        a \in LimitVals, b \in LimitVals, c \in LimitVals, d \in LimitVals}

\* no vertex below the Visitable
NoGraph == [kids |-> [u \in Nodes |-> {}], svc |-> [u \in Verts |-> Other]]

AtMostOne == {{}} \cup {{u} : u \in Verts}

\* graphs with up to three vertices below the Visitable, with fan-in, chains
\* and cycles; x is a service, y the same service, its reconfigured twin or no
\* service, z another service or no service
Graphs ==
    {[kids |-> [u \in Nodes |-> IF u = Root THEN r ELSE IF u = "x" THEN kx ELSE IF u = "y" THEN ky ELSE kz],
      svc |-> [u \in Verts |-> IF u = "x" THEN SvcA ELSE IF u = "y" THEN sy ELSE sz]] :
        r \in (SUBSET Verts) \ {{}}, kx \in SUBSET Verts, ky \in AtMostOne, kz \in AtMostOne,
        sy \in {SvcA, SvcB, Other}, sz \in {SvcC, Other}}

\* acyclic graphs: x and y below the Visitable, z below x and/or y
SmallGraphs ==
    {g \in Graphs :
        /\ g.kids["x"] \subseteq {"z"}
        /\ g.kids["y"] \subseteq {"z"}
        /\ g.kids["z"] = {}}

\* two services side by side below the Visitable
FlatGraphs ==
    {[kids |-> [u \in Nodes |-> IF u = Root THEN {"x", "y"} ELSE {}],
      svc |-> [u \in Verts |-> IF u = "x" THEN sx ELSE IF u = "y" THEN sy ELSE Other]] :
        sx \in NamedSvcs, sy \in NamedSvcs}
    \cup
    {[kids |-> [u \in Nodes |-> IF u = Root THEN {"x", "y"} ELSE {}],
      svc |-> [u \in Verts |-> IF u = "x" THEN sx ELSE IF u = "y" THEN SvcC ELSE Other]] :
        sx \in LimitedSvcs}

\* an empty map[string]*v2.Cluster
NoClusters == [n \in {} |-> SvcA]

(* ---------------------------- translation ------------------------------ *)
RECURSIVE Join(_, _)
\* strings.Join(elems, sep)
Join(elems, sep) ==
    IF Len(elems) = 0 THEN ""
    ELSE IF Len(elems) = 1 THEN elems[1]
    ELSE elems[1] \o sep \o Join(Tail(elems), sep)

\* the namespace left out of the path
ServiceNameNoNamespace(service) ==
    Join(IF service.PortName = "" THEN <<service.Name>> ELSE <<service.Name, service.PortName>>, "/")

\* edsconfig: name := []string{Namespace(), Name(), ServicePort.Name};
\* if name[2] == "" { name = name[:2] }; strings.Join(name, "/")
ServiceName(service) ==
    LET name == <<service.Namespace, service.Name, service.PortName>>
    IN  Join(IF name[3] = "" THEN SubSeq(name, 1, 2) ELSE name, "/")

edsconfig(source, service) == [EdsConfig |-> source, ServiceName |-> ServiceName(service)]

\* envoy.Clustername(svc): the service's identity, the slash-joined path of
\* namespace, name and port name
Clustername(service) == ServiceName(service)

edslbstrategy(lbStrategy) ==
    CASE lbStrategy = "WeightedLeastRequest" -> "LEAST_REQUEST"
      [] lbStrategy = "RingHash" -> "RING_HASH"
      [] lbStrategy = "Maglev" -> "MAGLEV"
      [] lbStrategy = "Random" -> "RANDOM"
      [] OTHER -> "ROUND_ROBIN"

\* a nil slice is <<>>
edshealthcheck(hc) == IF hc = "nil" THEN <<>> ELSE <<[HealthCheck |-> hc]>>

\* u32(val): the int converted to uint32 (modulo 2^32), as two 16-bit halves
u32(val) == [hi |-> (val \div 65536) % 65536, lo |-> val % 65536]

\* the uint32 u holds the number n
Holds(u, n) == n >= 0 /\ u.hi = n \div 65536 /\ u.lo = n % 65536

\* a nil pointer is <<>>, a pointer to x is <<x>>
uint32OrNil(val) == IF val = 0 THEN <<>> ELSE <<u32(val)>>

\* edscluster: the condition guarding c.CircuitBreakers
HasLimit(svc) ==
    svc.MaxConnections > 0 \/ svc.MaxPendingRequests > 0 \/ svc.MaxRequests > 0 \/ svc.MaxRetries > 0

CircuitBreakers(svc) ==
    IF HasLimit(svc)
      THEN <<[MaxConnections |-> uint32OrNil(svc.MaxConnections),
              MaxPendingRequests |-> uint32OrNil(svc.MaxPendingRequests),
              MaxRequests |-> uint32OrNil(svc.MaxRequests),
              MaxRetries |-> uint32OrNil(svc.MaxRetries)]>>
      ELSE <<>>

\* edscluster: the *v2.Cluster built for svc
Cluster(svc) ==
    [Name |-> Clustername(svc),
     Type |-> "EDS",
     EdsClusterConfig |-> edsconfig("contour", svc),
     ConnectTimeout |-> "250ms",
     LbPolicy |-> edslbstrategy(svc.LoadBalancerStrategy),
     HealthyPanicThreshold |-> 0,
     HealthChecks |-> edshealthcheck(svc.HealthCheck),
     CircuitBreakers |-> CircuitBreakers(svc),
     Http2ProtocolOptions |-> svc.Protocol \in {"h2", "h2c"},
     AlpnProtocols |-> IF svc.Protocol = "h2" THEN <<"h2">> ELSE <<>>]

\* vertex.(*dag.Service)
IsService(payload) == payload.kind = "Service"

\* an accumulator in which nothing is ever found
PresentNever(m, name) == FALSE

\* edscluster: _, ok := v.clusters[name]
Present(m, name) == name \in DOMAIN m

\* edscluster: v.clusters[c.Name] = c
Put(m, c) == [n \in DOMAIN m \cup {c.Name} |-> IF n = c.Name THEN c ELSE m[n]]

\* no descent below a service that was skipped as a duplicate
DescendUnlessSkipped(kids, skipped) == IF skipped THEN {} ELSE kids

\* visit: vertex.Visit(v.visit) is called whatever edscluster did
Descend(kids, skipped) == kids

(* ---------------------------- state ------------------------------------ *)
VARIABLES
    mu,        \* clusterCache.mu: the goroutine holding it, or NoProc
    values,    \* clusterCache.values
    waiters,   \* clusterCache.waiters: sequence of [ch, reg] (reg: the call that appended it)
    last,      \* clusterCache.last
    chans,     \* buffer of every channel
    pc,        \* position of every goroutine
    args,      \* arguments of the call every goroutine is in
    rng,       \* notify: the slice the range loop iterates over
    idx,       \* notify: index of the range loop
    ret,       \* Values: the slice built so far / returned
    regs,      \* history: one record per Register call
    dlog,      \* history: every send performed on a channel, in order (upd: number of the Update sending)
    updCalls,  \* history: number of Update calls made
    updDone,   \* history: number of Update calls that returned
    published, \* history: argument of the Update that returned last
    pend0,     \* history: clusterCache.waiters when an Update began
    seen,      \* subscriber: version received last on each channel
    await,     \* subscriber: a registration is outstanding on the channel
    graph,     \* the dag.Visitable: [kids, svc], children and payload of every vertex
    vpc,       \* position of every pass (a call of clusterVisitor.Visit)
    vis,       \* the clusterVisitor every pass was called on
    stack,     \* call stack of every pass: frames [vtx, todo]
    vret,      \* what Visit returned to every pass
    clusters,  \* clusterVisitor.clusters of every visitor
    calls      \* history: the edscluster calls of every pass, in order

vars == <<mu, values, waiters, last, chans, pc, args, rng, idx, ret,
          regs, dlog, updCalls, updDone, published, pend0, seen, await,
          graph, vpc, vis, stack, vret, clusters, calls>>

cacheVars == <<values, waiters, last>>
histVars == <<regs, dlog, updCalls, updDone, published, pend0>>
subVars == <<seen, await>>
visVars == <<graph, vpc, vis, stack, vret, clusters, calls>>

NoArgs == [ch |-> NoChan, last |-> 0, v |-> EmptyMap, filter |-> {}, reg |-> 0]

CacheInit ==
    /\ mu = NoProc
    /\ values = EmptyMap
    /\ waiters = <<>>
    /\ last = 0
    /\ chans = [c \in Chans |-> <<>>]
    /\ pc = [p \in Procs |-> "idle"]
    /\ args = [p \in Procs |-> NoArgs]
    /\ rng = [p \in Procs |-> <<>>]
    /\ idx = [p \in Procs |-> 0]
    /\ ret = [p \in Procs |-> <<>>]
    /\ regs = <<>>
    /\ dlog = <<>>
    /\ updCalls = 0
    /\ updDone = 0
    /\ published = EmptyMap
    /\ pend0 = [p \in Procs |-> <<>>]
    /\ seen = [c \in Chans |-> 0]
    /\ await = [c \in Chans |-> FALSE]

\* no pass has been started
VisitIdle ==
    /\ vpc = [k \in Passes |-> "idle"]
    /\ vis = [k \in Passes |-> "v1"]
    /\ stack = [k \in Passes |-> <<>>]
    /\ vret = [k \in Passes |-> NoClusters]
    /\ clusters = [v \in Visitors |-> NoClusters]
    /\ calls = [k \in Passes |-> <<>>]

Init ==
    /\ CacheInit
    /\ graph = NoGraph
    /\ VisitIdle

(* ---------------------------- helpers ---------------------------------- *)
\* a mutex that excludes nobody
CanLockAlways(m) == TRUE

\* c.mu.Lock() succeeds only while nobody holds the mutex
CanLock(m) == m = NoProc

\* `ch <- x` proceeds only while the buffer has room; otherwise it blocks
CanSend(buf) == Len(buf) < ChanCap

\* the comparison written as last <= c.last
StaleLe(lastSeen, cur) == lastSeen <= cur

\* Register: if last < c.last
Stale(lastSeen, cur) == lastSeen < cur

\* the counter bumped twice
IncrementedTwice(v) == v + 2

\* notify: c.last++
Incremented(v) == v + 1

\* the new map merged into the old one instead of replacing it
StoredMerged(old, v) == [k \in DOMAIN old \cup DOMAIN v |-> IF k \in DOMAIN v THEN v[k] ELSE old[k]]

\* Update: c.values = v
Stored(old, v) == v

\* the slice left as it is
TruncatedNot(ws) == ws

\* notify: c.waiters = c.waiters[:0]
Truncated(ws) == <<>>

\* the channel put in front of the slice
AppendedFront(ws, w) == <<w>> \o ws

\* the result of append dropped
AppendedLost(ws, w) == ws

\* Register: c.waiters = append(c.waiters, ch)
Appended(ws, w) == Append(ws, w)

\* Values: the clusters of the map whose Name passes the filter
Filtered(m, f) == {m[k] : k \in {x \in DOMAIN m : m[x].Name \in f}}

\* the orders in which a range over a map can produce the elements of S
Orders(S) == {s \in [1..Cardinality(S) -> S] : \A i, j \in 1..Cardinality(S) : s[i] = s[j] => i = j}

Range(s) == {s[i] : i \in 1..Len(s)}

(* ---------------------------- steps ------------------------------------ *)
\* A goroutine that has called an operation and waits for the mutex has done
\* nothing yet, so the call, c.mu.Lock() and the statements up to the next
\* point where the goroutine can be held up or observed are one step; so are
\* the last statement of an operation and its (deferred) c.mu.Unlock().

(* ---------------------------- Register --------------------------------- *)
\* c.Register(ch, l): c.mu.Lock(); if last < c.last { (at the send) } else
\* { c.waiters = append(c.waiters, ch); c.mu.Unlock() }
RegisterEnter(p, ch, l) ==
    /\ pc[p] = "idle"
    /\ Len(regs) < MaxRegs
    /\ CanLock(mu)
    /\ IF Stale(l, last)
         THEN /\ mu' = p
              /\ pc' = [pc EXCEPT ![p] = "Register_send"]
              /\ args' = [args EXCEPT ![p] = [NoArgs EXCEPT !.ch = ch, !.last = l, !.reg = Len(regs) + 1]]
              /\ waiters' = waiters
              /\ regs' = Append(regs, [ch |-> ch, last |-> l, at |-> last, pending |-> FALSE, done |-> FALSE])
         ELSE /\ mu' = NoProc
              /\ pc' = pc
              /\ args' = args
              /\ waiters' = Appended(waiters, [ch |-> ch, reg |-> Len(regs) + 1])
              /\ regs' = Append(regs, [ch |-> ch, last |-> l, at |-> last, pending |-> TRUE, done |-> TRUE])
    /\ UNCHANGED <<values, last, chans, rng, idx, ret, dlog, updCalls, updDone, published, pend0, visVars>>

RegisterLock(p, ch, l) ==
    /\ RegisterEnter(p, ch, l)
    /\ UNCHANGED subVars

\* the send without the return: control falls through to the append
RegisterSendNoReturn(p) ==
    /\ pc[p] = "Register_send"
    /\ Len(chans[args[p].ch]) < ChanCap
    /\ chans' = [chans EXCEPT ![args[p].ch] = Append(@, last)]
    /\ dlog' = Append(dlog, [reg |-> args[p].reg, ch |-> args[p].ch, val |-> last, by |-> "Register", upd |-> 0])
    /\ waiters' = Append(waiters, [ch |-> args[p].ch, reg |-> args[p].reg])
    /\ regs' = [regs EXCEPT ![args[p].reg].done = TRUE]
    /\ mu' = NoProc
    /\ pc' = [pc EXCEPT ![p] = "idle"]
    /\ args' = [args EXCEPT ![p] = NoArgs]
    /\ UNCHANGED <<values, last, rng, idx, ret, updCalls, updDone, published, pend0, subVars, visVars>>

\* the send of the caller's version plus one instead of c.last
RegisterSendLookahead(p) ==
    /\ pc[p] = "Register_send"
    /\ Len(chans[args[p].ch]) < ChanCap
    /\ chans' = [chans EXCEPT ![args[p].ch] = Append(@, args[p].last + 1)]
    /\ dlog' = Append(dlog, [reg |-> args[p].reg, ch |-> args[p].ch, val |-> args[p].last + 1, by |-> "Register", upd |-> 0])
    /\ regs' = [regs EXCEPT ![args[p].reg].done = TRUE]
    /\ mu' = NoProc
    /\ pc' = [pc EXCEPT ![p] = "idle"]
    /\ args' = [args EXCEPT ![p] = NoArgs]
    /\ UNCHANGED <<cacheVars, rng, idx, ret, updCalls, updDone, published, pend0, subVars, visVars>>

\* ch <- c.last ; return (c.mu.Unlock())
RegisterSend(p) ==
    /\ pc[p] = "Register_send"
    /\ CanSend(chans[args[p].ch])
    /\ chans' = [chans EXCEPT ![args[p].ch] = Append(@, last)]
    /\ dlog' = Append(dlog, [reg |-> args[p].reg, ch |-> args[p].ch, val |-> last, by |-> "Register", upd |-> 0])
    /\ regs' = [regs EXCEPT ![args[p].reg].done = TRUE]
    /\ mu' = NoProc
    /\ pc' = [pc EXCEPT ![p] = "idle"]
    /\ args' = [args EXCEPT ![p] = NoArgs]
    /\ UNCHANGED <<cacheVars, rng, idx, ret, updCalls, updDone, published, pend0, subVars, visVars>>

(* ---------------------------- Update / notify -------------------------- *)
\* c.Update(v): c.mu.Lock(); c.values = v
UpdateLock(p, v) ==
    /\ pc[p] = "idle"
    /\ updCalls < MaxVersion
    /\ CanLock(mu)
    /\ mu' = p
    /\ values' = Stored(values, v)
    /\ pend0' = [pend0 EXCEPT ![p] = waiters]
    /\ pc' = [pc EXCEPT ![p] = "notify_inc"]
    /\ args' = [args EXCEPT ![p] = [NoArgs EXCEPT !.v = v]]
    /\ updCalls' = updCalls + 1
    /\ UNCHANGED <<waiters, last, chans, rng, idx, ret, regs, dlog, updDone, published, subVars, visVars>>

\* c.last++ ; the range expression c.waiters is evaluated once
NotifyInc(p) ==
    /\ pc[p] = "notify_inc"
    /\ last' = Incremented(last)
    /\ rng' = [rng EXCEPT ![p] = waiters]
    /\ idx' = [idx EXCEPT ![p] = 1]
    /\ pc' = [pc EXCEPT ![p] = "notify_loop"]
    /\ UNCHANGED <<mu, values, waiters, chans, args, ret, histVars, subVars, visVars>>

\* for _, ch := range c.waiters { ch <- c.last }
NotifySend(p) ==
    /\ pc[p] = "notify_loop"
    /\ idx[p] <= Len(rng[p])
    /\ CanSend(chans[rng[p][idx[p]].ch])
    /\ chans' = [chans EXCEPT ![rng[p][idx[p]].ch] = Append(@, last)]
    /\ dlog' = Append(dlog, [reg |-> rng[p][idx[p]].reg, ch |-> rng[p][idx[p]].ch, val |-> last, by |-> "Update", upd |-> updCalls])
    /\ idx' = [idx EXCEPT ![p] = @ + 1]
    /\ UNCHANGED <<mu, cacheVars, pc, args, rng, ret, regs, updCalls, updDone, published, pend0, subVars, visVars>>

\* c.waiters = c.waiters[:0] ; notify and Update return (c.mu.Unlock())
NotifyClear(p) ==
    /\ pc[p] = "notify_loop"
    /\ idx[p] > Len(rng[p])
    /\ waiters' = Truncated(waiters)
    /\ mu' = NoProc
    /\ pc' = [pc EXCEPT ![p] = "idle"]
    /\ args' = [args EXCEPT ![p] = NoArgs]
    /\ rng' = [rng EXCEPT ![p] = <<>>]
    /\ idx' = [idx EXCEPT ![p] = 0]
    /\ pend0' = [pend0 EXCEPT ![p] = <<>>]
    /\ updDone' = updDone + 1
    /\ published' = args[p].v
    /\ UNCHANGED <<values, last, chans, ret, regs, dlog, updCalls, subVars, visVars>>

(* ---------------------------- Values ----------------------------------- *)
\* c.Values(f): c.mu.Lock(); values := make(...);
\* for _, v := range c.values { if filter(v.Name) { values = append(values, v) } }
ValuesLock(p, f) ==
    /\ pc[p] = "idle"
    /\ CanLock(mu)
    /\ mu' = p
    /\ \E s \in Orders(Filtered(values, f)) : ret' = [ret EXCEPT ![p] = s]
    /\ pc' = [pc EXCEPT ![p] = "Values_unlock"]
    /\ args' = [args EXCEPT ![p] = [NoArgs EXCEPT !.filter = f]]
    /\ UNCHANGED <<cacheVars, chans, rng, idx, histVars, subVars, visVars>>

\* c.mu.Unlock(); return values
ValuesUnlock(p) ==
    /\ pc[p] = "Values_unlock"
    /\ mu' = NoProc
    /\ pc' = [pc EXCEPT ![p] = "idle"]
    /\ args' = [args EXCEPT ![p] = NoArgs]
    /\ ret' = [ret EXCEPT ![p] = <<>>]
    /\ UNCHANGED <<cacheVars, chans, rng, idx, histVars, subVars, visVars>>

(* ---------------------------- the channel's reader --------------------- *)
\* the owner of channel c receives one value: <-c
Recv(c) ==
    /\ chans[c] # <<>>
    /\ chans' = [chans EXCEPT ![c] = Tail(@)]
    /\ UNCHANGED <<mu, cacheVars, pc, args, rng, idx, ret, histVars, subVars, visVars>>

(* ---------------------------- specification ---------------------------- *)
Next ==
    \/ \E p \in Procs, c \in Chans, l \in 0..MaxVersion : RegisterLock(p, c, l)
    \/ \E p \in Updaters, v \in Snapshots : UpdateLock(p, v)
    \/ \E p \in Readers, f \in Filters : ValuesLock(p, f)
    \/ \E p \in Procs : RegisterSend(p)
    \/ \E p \in Procs : NotifyInc(p)
    \/ \E p \in Procs : NotifySend(p)
    \/ \E p \in Procs : NotifyClear(p)
    \/ \E p \in Procs : ValuesUnlock(p)
    \/ \E c \in Chans : Recv(c)

Spec == Init /\ [][Next]_vars

(* ---------------------------- a disciplined subscriber ----------------- *)
\* The owner of channel c registers with the version it received last
\* (0 initially) and receives the delivery before it registers again.
SubRegister(p, c) ==
    /\ ~await[c]
    /\ RegisterEnter(p, c, seen[c])
    /\ await' = [await EXCEPT ![c] = TRUE]
    /\ UNCHANGED seen

\* after Register has returned, the owner of channel c receives: v := <-c
SubRecv(c) ==
    /\ await[c]
    /\ \A p \in Procs : args[p].ch # c
    /\ chans[c] # <<>>
    /\ seen' = [seen EXCEPT ![c] = Head(chans[c])]
    /\ await' = [await EXCEPT ![c] = FALSE]
    /\ chans' = [chans EXCEPT ![c] = Tail(@)]
    /\ UNCHANGED <<mu, cacheVars, pc, args, rng, idx, ret, histVars, visVars>>

NextSub ==
    \/ \E p \in Procs, c \in Chans : SubRegister(p, c)
    \/ \E p \in Updaters, v \in Snapshots : UpdateLock(p, v)
    \/ \E p \in Procs : RegisterSend(p)
    \/ \E p \in Procs : NotifyInc(p)
    \/ \E p \in Procs : NotifySend(p)
    \/ \E p \in Procs : NotifyClear(p)
    \/ \E c \in Chans : SubRecv(c)

SpecSub == Init /\ [][NextSub]_vars

\* a goroutine inside an operation keeps running (the Go scheduler runs every
\* runnable goroutine), and Update keeps being called while the bound allows
Running(p) ==
    \/ RegisterSend(p)
    \/ NotifyInc(p)
    \/ NotifySend(p)
    \/ NotifyClear(p)

LiveSub ==
    /\ Init
    /\ [][NextSub]_vars
    /\ \A p \in Procs : WF_vars(Running(p))
    /\ WF_vars(\E p \in Updaters, v \in Snapshots : UpdateLock(p, v))

(* ---------------------------- clusterVisitor -------------------------- *)
\* The passes read the graph and write only the visitor's clusters map; the
\* cache embedded in the visitor is not touched.
cacheAll == <<mu, values, waiters, last, chans, pc, args, rng, idx, ret, histVars, subVars>>

Top(k) == stack[k][Len(stack[k])]

\* v.Visit(): v.clusters = make(map[string]*v2.Cluster); v.Visitable.Visit(v.visit)
VisitStart(k, v) ==
    /\ vpc[k] = "idle"
    /\ vpc' = [vpc EXCEPT ![k] = "run"]
    /\ vis' = [vis EXCEPT ![k] = v]
    /\ clusters' = [clusters EXCEPT ![v] = NoClusters]
    /\ stack' = [stack EXCEPT ![k] = <<[vtx |-> Root, todo |-> graph.kids[Root]]>>]
    /\ UNCHANGED <<cacheAll, graph, vret, calls>>

\* the Visit of the vertex on top of the stack calls v.visit(c) for a child c
\* it has not yet passed: if c is a *dag.Service, v.edscluster(c); then
\* c.Visit(v.visit)
VisitChild(k) ==
    /\ vpc[k] = "run"
    /\ Len(stack[k]) < MaxDepth
    /\ \E c \in Top(k).todo :
          LET svc == graph.svc[c]
              name == Clustername(svc)
              skipped == IsService(svc) /\ Present(clusters[vis[k]], name)
          IN  /\ clusters' = IF IsService(svc) /\ ~skipped
                               THEN [clusters EXCEPT ![vis[k]] = Put(@, Cluster(svc))]
                               ELSE clusters
              /\ calls' = IF IsService(svc)
                            THEN [calls EXCEPT ![k] = Append(@, [vtx |-> c, name |-> name, skipped |-> skipped])]
                            ELSE calls
              /\ stack' = [stack EXCEPT ![k] =
                              Append([@ EXCEPT ![Len(@)].todo = @ \ {c}],
                                     [vtx |-> c, todo |-> Descend(graph.kids[c], skipped)])]
    /\ UNCHANGED <<cacheAll, graph, vpc, vis, vret>>

\* the Visit of a vertex has passed all its children: visit returns
VisitReturn(k) ==
    /\ vpc[k] = "run"
    /\ Len(stack[k]) > 1
    /\ Top(k).todo = {}
    /\ stack' = [stack EXCEPT ![k] = SubSeq(@, 1, Len(@) - 1)]
    /\ UNCHANGED <<cacheAll, graph, vpc, vis, vret, clusters, calls>>

\* v.Visitable.Visit has returned: return v.clusters
VisitDone(k) ==
    /\ vpc[k] = "run"
    /\ Len(stack[k]) = 1
    /\ Top(k).todo = {}
    /\ stack' = [stack EXCEPT ![k] = <<>>]
    /\ vret' = [vret EXCEPT ![k] = clusters[vis[k]]]
    /\ vpc' = [vpc EXCEPT ![k] = "done"]
    /\ UNCHANGED <<cacheAll, graph, vis, clusters, calls>>

\* two passes running on one visitor access its map without synchronisation:
\* the Go runtime may stop the program (fatal error: concurrent map writes),
\* and with it every goroutine
VisitFault(k) ==
    /\ vpc[k] = "run"
    /\ \E k2 \in Passes \ {k} : vpc[k2] = "run" /\ vis[k2] = vis[k]
    /\ vpc' = [j \in Passes |-> "fault"]
    /\ stack' = [j \in Passes |-> <<>>]
    /\ UNCHANGED <<cacheAll, graph, vis, vret, clusters, calls>>

\* one pass over a graph
InitVisit ==
    /\ CacheInit
    /\ graph \in Graphs
    /\ VisitIdle

NextVisit ==
    \/ VisitStart("k1", "v1")
    \/ VisitChild("k1")
    \/ VisitReturn("k1")
    \/ VisitDone("k1")

SpecVisit == InitVisit /\ [][NextVisit]_vars

\* a pass that has been started keeps running
LiveVisit ==
    /\ InitVisit
    /\ [][NextVisit]_vars
    /\ WF_vars(VisitChild("k1") \/ VisitReturn("k1") \/ VisitDone("k1"))

\* one pass over two services drawn from a range of names, ports and limits
InitTranslate ==
    /\ CacheInit
    /\ graph \in FlatGraphs
    /\ VisitIdle

SpecTranslate == InitTranslate /\ [][NextVisit]_vars

\* two passes over one graph, on two visitors or on the same one
InitVisit2 ==
    /\ CacheInit
    /\ graph \in SmallGraphs
    /\ VisitIdle

NextVisit2 ==
    \/ VisitStart("k1", "v1")
    \/ \E v \in Visitors : VisitStart("k2", v)
    \/ \E k \in Passes : VisitChild(k)
    \/ \E k \in Passes : VisitReturn(k)
    \/ \E k \in Passes : VisitDone(k)
    \/ \E k \in Passes : VisitFault(k)

SpecVisit2 == InitVisit2 /\ [][NextVisit2]_vars

(* ---------------------------- graph queries ---------------------------- *)
RECURSIVE ReachFrom(_, _)
\* the vertices reachable from the set S (S included)
ReachFrom(g, S) ==
    LET T == S \cup UNION {g.kids[u] : u \in S}
    IN  IF T = S THEN S ELSE ReachFrom(g, T)

\* the vertices reachable from the roots
Reachable(g) == ReachFrom(g, g.kids[Root])

\* a cycle can be reached from the roots
Cyclic(g) == \E u \in Reachable(g) : u \in ReachFrom(g, g.kids[u])

\* the services reachable from the roots
Services(g) == {u \in Reachable(g) : IsService(g.svc[u])}

(* ---------------------------- history queries -------------------------- *)
Deliveries(r) == {i \in 1..Len(dlog) : dlog[i].reg = r}
NDeliv(r) == Cardinality(Deliveries(r))
InWaiters(r) == \E i \in 1..Len(waiters) : waiters[i].reg = r
Decided(r) == regs[r].at >= 0
RegIds == 1..Len(regs)

(* ---------------------------- claims ----------------------------------- *)
\* C1: a registration made with last equal to the cache's version gets no
\* delivery from Register; the Update that produces the next version (at + 1)
\* delivers to it exactly once, and once that Update has returned no later
\* Update delivers to it again.
C1_EqualWaitsForNextUpdate ==
    \A r \in RegIds :
        (Decided(r) /\ regs[r].last = regs[r].at) =>
            /\ NDeliv(r) <= 1
            /\ \A i \in Deliveries(r) : dlog[i].by = "Update" /\ dlog[i].val = regs[r].at + 1
            /\ (updDone > regs[r].at => NDeliv(r) = 1)
            /\ (last = regs[r].at => NDeliv(r) = 0 /\ InWaiters(r))

\* a registration made at version 0 with last 0 has one delivery after two Updates returned
C1_Witness ==
    \E r \in RegIds :
        /\ regs[r].at = 0 /\ regs[r].last = 0
        /\ updDone = 2
        /\ NDeliv(r) = 1

\* C2: a registration made with last below the cache's version is never put
\* in the pending set, is delivered to only by Register, at most once, and
\* exactly once by the time Register has returned.
C2_StaleDeliveredInRegister ==
    \A r \in RegIds :
        (Decided(r) /\ regs[r].last < regs[r].at) =>
            /\ ~InWaiters(r)
            /\ ~regs[r].pending
            /\ NDeliv(r) <= 1
            /\ \A i \in Deliveries(r) : dlog[i].by = "Register" /\ dlog[i].val = regs[r].at
            /\ (regs[r].done <=> NDeliv(r) = 1)

\* a stale Register call has returned, an Update followed it, and it has its one delivery
C2_Witness ==
    \E r \in RegIds :
        /\ Decided(r) /\ regs[r].last < regs[r].at
        /\ regs[r].done
        /\ updDone > regs[r].at
        /\ NDeliv(r) = 1

\* C3: delivery never blocks: whenever Register or notify is at a send, the
\* send can proceed (it completes or is dropped), so no goroutine waits at a
\* send while it holds the mutex.
C3_SendNeverBlocks ==
    \A p \in Procs :
        /\ (pc[p] = "Register_send" => ENABLED RegisterSend(p))
        /\ (pc[p] = "notify_loop" /\ idx[p] <= Len(rng[p]) => ENABLED NotifySend(p))

\* C4: under the subscriber discipline, with goroutines that keep running
\* and Updates that keep being called, every registration gets exactly one
\* delivery: a stale one in Register, any other from the next Update; and
\* once an Update that followed a registration has returned, that
\* registration has its delivery.
C4_EveryWaiterDelivered ==
    /\ \A r \in 1..MaxRegs :
          (r \in RegIds /\ Decided(r) /\ (regs[r].at < MaxVersion \/ ~regs[r].pending))
              ~> (r \in RegIds /\ NDeliv(r) = 1)
    /\ [](\A r \in RegIds :
            /\ NDeliv(r) <= 1
            /\ (regs[r].pending /\ updDone > regs[r].at => NDeliv(r) = 1)
            /\ (Decided(r) /\ ~regs[r].pending /\ regs[r].done => NDeliv(r) = 1))

\* one registration was delivered to by Register and another by an Update
C4_Witness ==
    \E r1, r2 \in RegIds :
        /\ regs[r1].pending /\ NDeliv(r1) = 1
        /\ Decided(r2) /\ ~regs[r2].pending /\ NDeliv(r2) = 1
        /\ regs[r1].done /\ regs[r2].done

\* C5: no registration is delivered to more than once; one delivered to by
\* Register is not in the pending set; one delivered to by an Update is in
\* the pending set only while that Update is still inside notify.
C5_AtMostOneDelivery ==
    \A r \in RegIds :
        /\ NDeliv(r) <= 1
        /\ \A i \in Deliveries(r) :
              /\ (dlog[i].by = "Register" => ~InWaiters(r))
              /\ (dlog[i].by = "Update" /\ InWaiters(r) =>
                     \E p \in Procs :
                         /\ mu = p
                         /\ pc[p] = "notify_loop"
                         /\ \E k \in 1..(idx[p] - 1) : rng[p][k].reg = r)

\* a waiter delivered to by the first Update is still delivered once while a
\* second Update is inside notify
C5_Witness ==
    \E r \in RegIds, p \in Procs :
        /\ regs[r].pending
        /\ NDeliv(r) = 1
        /\ updDone = 1
        /\ pc[p] = "notify_loop"
        /\ ~InWaiters(r)

\* C6: the version is the number of Updates that have bumped it (0 in a
\* new cache, k after k Update calls); it changes only in the c.last++ step
\* of notify, by exactly 1; no step of Register or Values changes it.
C6_VersionCountsUpdates ==
    /\ [](last = updDone + Cardinality({p \in Procs : pc[p] = "notify_loop"}))
    /\ [][last' # last =>
             /\ last' = last + 1
             /\ \E p \in Procs : pc[p] = "notify_inc" /\ pc'[p] = "notify_loop"]_vars

\* two Updates have returned with Register calls in between
C6_Witness ==
    /\ last = 2
    /\ updDone = 2
    /\ \E r \in RegIds : regs[r].done /\ regs[r].at = 1

\* C7: the versions delivered on the channel of a disciplined subscriber
\* are strictly increasing, and each is above the version it registered with.
C7_StrictlyIncreasing ==
    /\ \A i, j \in 1..Len(dlog) :
          (i < j /\ dlog[i].ch = dlog[j].ch) => dlog[i].val < dlog[j].val
    /\ \A i \in 1..Len(dlog) : dlog[i].val > regs[dlog[i].reg].last

\* a subscriber has received twice
C7_Witness ==
    \E i, j \in 1..Len(dlog) :
        /\ i < j
        /\ dlog[i].ch = dlog[j].ch
        /\ seen[dlog[j].ch] = dlog[j].val

\* C8: while a goroutine is inside Values or Register (holding the mutex), no Update is between replacing the map and having notified the
\* waiters, the map is the argument of the Update that returned last (the
\* empty map before any), the version is the number of Updates returned,
\* and what Values has collected comes from that one map.
InRead(p) == pc[p] \in {"Values_unlock", "Register_send"}

C8_UpdateAtomic ==
    \A p \in Procs :
        InRead(p) =>
            /\ \A q \in Procs : pc[q] \notin {"notify_inc", "notify_loop"}
            /\ values = published
            /\ last = updDone
            /\ Range(ret[p]) \subseteq {published[k] : k \in DOMAIN published}

\* Values has collected entries after two Updates
C8_Witness ==
    \E p \in Procs :
        /\ pc[p] = "Values_unlock"
        /\ updDone = 2
        /\ Len(ret[p]) = 2

\* C9: what Values returns is, without repetition, exactly the entries of
\* the map passed to the Update that returned last whose Name passes the
\* filter; with the always-true filter, all of its entries.
C9_ValuesExact ==
    \A p \in Procs :
        pc[p] = "Values_unlock" =>
            /\ Range(ret[p]) = {published[k] : k \in {x \in DOMAIN published : published[x].Name \in args[p].filter}}
            /\ Len(ret[p]) = Cardinality(Range(ret[p]))
            /\ (args[p].filter = AlwaysTrue => Range(ret[p]) = {published[k] : k \in DOMAIN published})

\* Values(always-true) returns a single entry after a second Update
C9_Witness ==
    \E p \in Procs :
        /\ pc[p] = "Values_unlock"
        /\ args[p].filter = AlwaysTrue
        /\ updDone = 2
        /\ Len(ret[p]) = 1

\* C10: in the state right after an Update returns the pending set is
\* empty, and every waiter that was pending when the Update began has been
\* sent the new version by a send of notify.
C10_UpdateEmptiesPending ==
    [][\A p \in Procs :
          (pc[p] = "notify_loop" /\ pc'[p] = "idle") =>
              /\ waiters' = <<>>
              /\ \A k \in 1..Len(pend0[p]) :
                    \E i \in 1..Len(dlog') :
                        /\ dlog'[i].reg = pend0[p][k].reg
                        /\ dlog'[i].ch = pend0[p][k].ch
                        /\ dlog'[i].val = last'
                        /\ dlog'[i].by = "Update"]_vars

\* an Update that began with two pending waiters is about to return
C10_Witness ==
    \E p \in Procs :
        /\ pc[p] = "notify_loop"
        /\ idx[p] > Len(rng[p])
        /\ Len(pend0[p]) = 2

\* C14: every value sent is the cache's version at the send: Register sends
\* the version it found, the k-th Update sends k to every waiter it releases,
\* and a waiter registered with last N at version N is sent N + 1.
C14_DeliversCurrentVersion ==
    \A i \in 1..Len(dlog) :
        /\ (dlog[i].by = "Register" => dlog[i].val = regs[dlog[i].reg].at)
        /\ (dlog[i].by = "Update" => dlog[i].val = dlog[i].upd)
        /\ (dlog[i].by = "Update" /\ regs[dlog[i].reg].last = regs[dlog[i].reg].at
               => dlog[i].val = regs[dlog[i].reg].last + 1)
        /\ \A j \in 1..Len(dlog) :
              (dlog[i].by = "Update" /\ dlog[j].by = "Update" /\ dlog[i].upd = dlog[j].upd)
                  => dlog[i].val = dlog[j].val

\* the second Update has released two waiters, one of them registered at version 1 with last 1
C14_Witness ==
    \E i, j \in 1..Len(dlog) :
        /\ i # j
        /\ dlog[i].upd = 2 /\ dlog[j].upd = 2
        /\ regs[dlog[i].reg].last = 1 /\ regs[dlog[i].reg].at = 1

\* C15 (as claimed): whatever last a Register call passes, also one above
\* the cache's version, the version delivered to it is greater than last.
C15_DeliveredAboveAnyLast ==
    \A i \in 1..Len(dlog) : dlog[i].val > regs[dlog[i].reg].last

\* C15 (amended): a Register call that passes a last not above the cache's
\* version is delivered a version greater than last.
C15_DeliveredAboveLast ==
    \A i \in 1..Len(dlog) :
        regs[dlog[i].reg].last <= regs[dlog[i].reg].at => dlog[i].val > regs[dlog[i].reg].last

\* a call with last equal to the version and a call with last below it have both been delivered to
C15_Witness ==
    \E i, j \in 1..Len(dlog) :
        /\ regs[dlog[i].reg].last = regs[dlog[i].reg].at
        /\ regs[dlog[j].reg].last < regs[dlog[j].reg].at

\* C20: the waiters pending at an Update are sent to in the order of their
\* Register calls, one after the other with no other send in between, while
\* the pending set still holds them.
C20_DeliveryInRegistrationOrder ==
    /\ \A i, j \in 1..Len(dlog) :
          (i < j /\ dlog[i].by = "Update" /\ dlog[j].by = "Update" /\ dlog[i].upd = dlog[j].upd)
              => dlog[i].reg < dlog[j].reg
    /\ \A p \in Procs :
          pc[p] = "notify_loop" =>
              /\ waiters = rng[p]
              /\ \A k \in 1..(idx[p] - 1) :
                    dlog[Len(dlog) - (idx[p] - 1) + k].reg = rng[p][k].reg

\* an Update has sent to two waiters and has not yet cleared the pending set
C20_Witness ==
    \E p \in Procs :
        /\ pc[p] = "notify_loop"
        /\ Len(rng[p]) = 2
        /\ idx[p] = 3
        /\ rng[p][1].ch # rng[p][2].ch

\* the edscluster call of pass k that met the name n first
FirstCall(k, n) ==
    CHOOSE i \in 1..Len(calls[k]) :
        /\ calls[k][i].name = n
        /\ \A j \in 1..(i - 1) : calls[k][j].name # n

\* the names pass k has called edscluster with
CalledNames(k) == {calls[k][i].name : i \in 1..Len(calls[k])}

\* C11: throughout a pass the accumulator holds, for every identity the
\* pass has met, one entry: the translation of the first vertex visited with
\* that identity; every later visit of the identity is skipped, and the map
\* the pass returns is that accumulator.
C11_FirstWriterWins ==
    /\ DOMAIN clusters["v1"] = CalledNames("k1")
    /\ \A n \in CalledNames("k1") :
          clusters["v1"][n] = Cluster(graph.svc[calls["k1"][FirstCall("k1", n)].vtx])
    /\ \A i \in 1..Len(calls["k1"]) :
          calls["k1"][i].skipped <=> i # FirstCall("k1", calls["k1"][i].name)
    /\ (vpc["k1"] = "done" => vret["k1"] = clusters["v1"])

\* a pass has returned after visiting two vertices of one identity whose
\* translations differ
C11_Witness ==
    /\ vpc["k1"] = "done"
    /\ \E i, j \in 1..Len(calls["k1"]) :
          /\ i < j
          /\ calls["k1"][i].name = calls["k1"][j].name
          /\ Cluster(graph.svc[calls["k1"][i].vtx]) # Cluster(graph.svc[calls["k1"][j].vtx])
          /\ Cardinality(DOMAIN vret["k1"]) = 1

\* the service pass k called edscluster with in its i-th call
CalledSvc(k, i) == graph.svc[calls[k][i].vtx]

\* C12 (as claimed): two services visited by a pass that get the same
\* identity string have the same namespace, name and port (port name and
\* port number).
C12_IdentityInjective ==
    \A i, j \in 1..Len(calls["k1"]) :
        calls["k1"][i].name = calls["k1"][j].name =>
            /\ CalledSvc("k1", i).Namespace = CalledSvc("k1", j).Namespace
            /\ CalledSvc("k1", i).Name = CalledSvc("k1", j).Name
            /\ CalledSvc("k1", i).PortName = CalledSvc("k1", j).PortName
            /\ CalledSvc("k1", i).Port = CalledSvc("k1", j).Port

\* C12 (amended): two services visited by a pass that get the same identity
\* string have the same namespace, name and port name; the string is also
\* the ServiceName of the entry stored under it.
C12_IdentityInjectiveOnPortName ==
    /\ \A i, j \in 1..Len(calls["k1"]) :
          calls["k1"][i].name = calls["k1"][j].name =>
              /\ CalledSvc("k1", i).Namespace = CalledSvc("k1", j).Namespace
              /\ CalledSvc("k1", i).Name = CalledSvc("k1", j).Name
              /\ CalledSvc("k1", i).PortName = CalledSvc("k1", j).PortName
    /\ \A n \in DOMAIN clusters["v1"] : clusters["v1"][n].EdsClusterConfig.ServiceName = n

\* a pass has visited a service on a port without a name and the same
\* service on a named port, and has returned one entry for each
C12_Witness ==
    /\ vpc["k1"] = "done"
    /\ \E i, j \in 1..Len(calls["k1"]) :
          /\ CalledSvc("k1", i).Namespace = CalledSvc("k1", j).Namespace
          /\ CalledSvc("k1", i).Name = CalledSvc("k1", j).Name
          /\ CalledSvc("k1", i).PortName = ""
          /\ CalledSvc("k1", j).PortName = "http"
          /\ calls["k1"][i].name = "d/web"
          /\ calls["k1"][j].name = "d/web/http"
          /\ DOMAIN vret["k1"] = {"d/web", "d/web/http"}

\* the four limits of a service
LimitFields == {"MaxConnections", "MaxPendingRequests", "MaxRequests", "MaxRetries"}

\* C13: every entry translated from a service carries a circuit-breaker
\* threshold exactly when one of the service's four limits is above zero; in
\* the threshold a field is present exactly when its limit is not zero, and a
\* field present holds the limit's value and never zero.
C13_ThresholdIffLimit ==
    \A n \in DOMAIN clusters["v1"] :
        LET svc == CalledSvc("k1", FirstCall("k1", n))
            cb == clusters["v1"][n].CircuitBreakers
        IN  /\ cb # <<>> <=> \E f \in LimitFields : svc[f] > 0
            /\ cb # <<>> =>
                  \A f \in LimitFields :
                      /\ cb[1][f] # <<>> <=> svc[f] # 0
                      /\ cb[1][f] # <<>> => Holds(cb[1][f][1], svc[f]) /\ ~Holds(cb[1][f][1], 0)

\* C16: the map a pass returns has as its keys exactly the identities of
\* the services reachable from the roots, and the pass has called edscluster
\* on every one of them, also on those below a service that was skipped as a
\* duplicate.
C16_KeysAreReachableServices ==
    vpc["k1"] = "done" =>
        /\ DOMAIN vret["k1"] = {Clustername(graph.svc[u]) : u \in Services(graph)}
        /\ {calls["k1"][i].vtx : i \in 1..Len(calls["k1"])} = Services(graph)

\* a pass has returned, y was skipped as a duplicate and the service z is
\* reachable only through y
C16_Witness ==
    /\ vpc["k1"] = "done"
    /\ \E i \in 1..Len(calls["k1"]) : calls["k1"][i].vtx = "y" /\ calls["k1"][i].skipped
    /\ "z" \in graph.kids["y"]
    /\ "z" \notin graph.kids[Root] \cup graph.kids["x"]
    /\ IsService(graph.svc["z"])
    /\ Clustername(graph.svc["z"]) \in DOMAIN vret["k1"]

\* both passes have returned, and they ran on two visitors
BothDoneApart == vpc["k1"] = "done" /\ vpc["k2"] = "done" /\ vis["k1"] # vis["k2"]

\* every service of identity n reachable in g has the same translation
OneTranslation(g, n) ==
    \A u, w \in Services(g) :
        (Clustername(g.svc[u]) = n /\ Clustername(g.svc[w]) = n) => Cluster(g.svc[u]) = Cluster(g.svc[w])

\* C17 (as claimed): two passes over one graph, whatever the order in which
\* each visits sibling children, return the same map.
C17_OrderIndependent ==
    BothDoneApart => vret["k1"] = vret["k2"]

\* C17 (amended): two passes over one graph return maps with the same keys,
\* and the same entry under every identity whose reachable services all have
\* the same translation.
C17_OrderIndependentKeys ==
    BothDoneApart =>
        /\ DOMAIN vret["k1"] = DOMAIN vret["k2"]
        /\ \A n \in DOMAIN vret["k1"] :
              OneTranslation(graph, n) => vret["k1"][n] = vret["k2"][n]

\* two passes that visited the services in different orders have returned;
\* x and y are the same service with the same configuration
C17_Witness ==
    /\ BothDoneApart
    /\ calls["k1"] # calls["k2"]
    /\ calls["k1"][1].vtx # calls["k2"][1].vtx
    /\ {"x", "y"} \subseteq Services(graph)
    /\ graph.svc["y"] = SvcA
    /\ vret["k1"] = vret["k2"]
    /\ Cardinality(DOMAIN vret["k1"]) = 2

\* C18: a pass that has been started on a graph without a reachable cycle
\* returns, and no pass ever returns on a graph with a cycle reachable from
\* the roots.
C18_TerminatesIffAcyclic ==
    /\ (vpc["k1"] = "run" /\ ~Cyclic(graph)) ~> (vpc["k1"] = "done")
    /\ [](Cyclic(graph) => vpc["k1"] # "done")

\* a pass has returned from the chain x, y, z with z also a root
C18_Witness ==
    /\ vpc["k1"] = "done"
    /\ ~Cyclic(graph)
    /\ graph.kids[Root] = {"x", "z"}
    /\ graph.kids["x"] = {"y"}
    /\ graph.kids["y"] = {"z"}
    /\ Len(calls["k1"]) >= 3

\* C19: when two passes over one graph are interleaved, on two visitors
\* or on the same one, no pass is cut short, every pass that returns returns
\* what it would return run alone (one entry per reachable service identity,
\* translated from the vertex that pass visited first), and the cache's map,
\* version and waiters stay as they were.
C19_ConcurrentPassesIndependent ==
    /\ \A k \in Passes :
          /\ vpc[k] # "fault"
          /\ vpc[k] = "done" =>
                /\ DOMAIN vret[k] = {Clustername(graph.svc[u]) : u \in Services(graph)}
                /\ \A n \in DOMAIN vret[k] :
                      /\ n \in CalledNames(k)
                      /\ vret[k][n] = Cluster(CalledSvc(k, FirstCall(k, n)))
    /\ values = EmptyMap
    /\ last = 0
    /\ waiters = <<>>

====
